---- MODULE Spec2Model ----
(***************************************************************************)
(* Testflinger v1 API (server/src/api/v1.py): the job store with its       *)
(* atomic claim, the job state field, cancellation, position in queue,     *)
(* the append/drain output log and the versioned artifact store.           *)
(*                                                                         *)
(* Every handler performs its store accesses through single pymongo calls  *)
(* (insert_one, find_one, update_one, find_one_and_update,                 *)
(* find_one_and_delete), each of which is one atomic step on one           *)
(* collection.  A collection is a sequence of documents in insertion       *)
(* order; no collection has a uniqueness constraint on job_id.             *)
(*                                                                         *)
(* Left out: created_at and updated_at (no handler reads them), the        *)
(* prometheus counters, the agents and queues collections, and the         *)
(* branches of job_position_get that the status returned by job_get_id     *)
(* (always 200 or 204) never takes.                                        *)
(***************************************************************************)
EXTENDS Integers, Sequences, FiniteSets, TLC

VARIABLES
    jobs,       \* mongo.db.jobs: documents in insertion order
    resp,       \* the response of the last request handled
    claimed,    \* history (SpecHistory): the job_ids returned so far by job_get
    cancelled,  \* history (SpecHistory): the job_ids whose cancel has succeeded
    callers,    \* concurrent job_get requests: position, queue list, outcome
    output,     \* mongo.db.output: one document per job_id with its chunks
    appended,   \* history: per job_id the chunks pushed by output_post, in order
    drained,    \* history: per job_id the chunks handed out by output_get, in order
    fs_files,   \* GridFS fs.files: one document per uploaded version
    fs_chunks,  \* GridFS fs.chunks: the bytes of each version
    now,        \* the upload time GridFS stamps on the next version
    puts        \* history: per job_id the bytes uploaded by artifacts_post, in order

jobVars == <<jobs, claimed, cancelled>>
outVars == <<output, appended, drained>>
artVars == <<fs_files, fs_chunks, now, puts>>
vars == <<jobs, resp, claimed, cancelled, callers, output, appended, drained,
          fs_files, fs_chunks, now, puts>>

----------------------------------------------------------------------------
(* Bounds *)
MaxJobs == 2

MaxChunks == 3
MaxPuts == 3

(* Inputs *)
Chunks == {"a", "b", ""}
Blobs == {"tar1", "tar2"}
Callers == {"agent1", "agent2", "agent3"}
UUID1 == "00000000-0000-4000-8000-000000000001"
UUID2 == "00000000-0000-4000-8000-000000000002"
ValidUuids == {UUID1, UUID2}
BadId == "not-a-uuid"
NoJobId == "None"        \* no job_id in the submission: data.pop gives None
EmptyJobId == ""         \* a job_id that is the empty string
JobIdInputs == ValidUuids \cup {BadId}
SuppliedInputs == JobIdInputs \cup {NoJobId, EmptyJobId}
Queues == {"q1", "q2"}
NoQueue == ""            \* job_queue absent or empty: falsy in job_post
JobStates == {"waiting", "running", "cancelled", "completed"}
ResultInputs == {[k \in {"job_state"} |-> s] : s \in JobStates}
\* results of one or two fields: a job_state, a test_status, or both
ResultWrites ==
    {[k \in {"job_state"} |-> s] : s \in {"waiting", "completed"}}
    \cup {[k \in {"test_status"} |-> t] : t \in {"0", "1"}}
    \cup {[job_state |-> s, test_status |-> t] :
             s \in {"waiting", "completed"}, t \in {"0", "1"}}

----------------------------------------------------------------------------
(* Helpers on collections *)

\* the index of the first document of coll (scan order) that satisfies P, 0 if none
FirstIndex(coll, P(_)) ==
    IF \E i \in 1..Len(coll) : P(coll[i])
    THEN CHOOSE i \in 1..Len(coll) :
            P(coll[i]) /\ \A j \in 1..(i-1) : ~P(coll[j])
    ELSE 0

\* the number of entries of the sequences f[x], x in S
RECURSIVE TotalLen(_, _)
TotalLen(f, S) ==
    IF S = {} THEN 0
    ELSE LET x == CHOOSE y \in S : TRUE
         IN Len(f[x]) + TotalLen(f, S \ {x})

\* an update that replaces the whole sub-document
Merge_Replace(old, upd) == upd

\* $set: the fields of upd overwrite or extend those of old
Merge(old, upd) ==
    [k \in (DOMAIN old) \cup (DOMAIN upd) |->
        IF k \in DOMAIN upd THEN upd[k] ELSE old[k]]

\* a response: the handler, the job_id (or other input) it was called with,
\* the HTTP status and the body
Response(op, arg, status, body) ==
    [op |-> op, arg |-> arg, status |-> status, body |-> body]

----------------------------------------------------------------------------
(* check_valid_uuid: uuid.UUID(job_id) raises ValueError or not *)
check_valid_uuid(job_id) == job_id \in ValidUuids

(* uuid.uuid4(): a random UUID, taken to differ from the ids in the store *)
uuid4 == {id \in ValidUuids : \A i \in 1..Len(jobs) : jobs[i].job_id # id}

(* job_builder: the document built for a submission *)
job_builder(job_queue, job_id) ==
    [job_id |-> job_id,
     job_data |-> [job_queue |-> job_queue],
     result_data |-> [job_state |-> "waiting"]]

\* "if job_id and isinstance(job_id, str)": None and "" are falsy
Provided(job_id) == job_id \notin {NoJobId, EmptyJobId}

\* a check that accepts every string
InvalidSupplied_None(job_id) == FALSE

\* job_builder raises ValueError
InvalidSupplied(job_id) == Provided(job_id) /\ ~check_valid_uuid(job_id)

(* job_post; the response records the job_queue and the job_id submitted *)
JobPost(job_queue, supplied) ==
    /\ IF job_queue = NoQueue
       THEN /\ resp' = Response("job_post", <<job_queue, supplied>>, 422,
                                "Invalid data or no job_queue specified")
            /\ UNCHANGED jobs
       ELSE IF InvalidSupplied(supplied)
       THEN /\ resp' = Response("job_post", <<job_queue, supplied>>, 400,
                                "Invalid job_id specified")
            /\ UNCHANGED jobs
       ELSE /\ Len(jobs) < MaxJobs
            /\ \E job_id \in (IF Provided(supplied) THEN {supplied} ELSE uuid4) :
                 /\ jobs' = Append(jobs, job_builder(job_queue, job_id))
                 /\ resp' = Response("job_post", <<job_queue, supplied>>, 200, job_id)
    /\ UNCHANGED <<claimed, cancelled, callers, outVars, artVars>>

----------------------------------------------------------------------------
(* get_job: find_one_and_update of one waiting job on one of the queues *)
\* a filter that forgets to exclude the jobs already running
Claimable_AnyActive(job, queue_list) ==
    /\ job.result_data.job_state \in {"waiting", "running"}
    /\ job.job_data.job_queue \in queue_list

Claimable(job, queue_list) ==
    /\ job.result_data.job_state = "waiting"
    /\ job.job_data.job_queue \in queue_list

\* a query that forgets the queue list
get_job_candidates_AnyQueue(queue_list) ==
    {i \in 1..Len(jobs) :
        /\ jobs[i].result_data.job_state = "waiting"
        /\ \A j \in 1..(i-1) : jobs[j].result_data.job_state # "waiting"}

\* The documents find_one_and_update may select: a matching document that no
\* matching document of the same queue precedes.  Without a sort the store
\* returns the first match of its scan; a collection scan and a scan of an
\* index on (job_state, job_queue) both keep insertion order within a queue.
get_job_candidates(queue_list) ==
    {i \in 1..Len(jobs) :
        /\ Claimable(jobs[i], queue_list)
        /\ \A j \in 1..(i-1) :
              ~(Claimable(jobs[j], queue_list)
                /\ jobs[j].job_data.job_queue = jobs[i].job_data.job_queue)}

\* an update that also rewrites the job_data
SetState_DropData(i, state) ==
    [jobs EXCEPT ![i].result_data = Merge(@, [k \in {"job_state"} |-> state]),
                 ![i].job_data = [job_queue |-> NoQueue]]

SetState(i, state) ==
    [jobs EXCEPT ![i].result_data = Merge(@, [k \in {"job_state"} |-> state])]

Flatten(job) == [job_queue |-> job.job_data.job_queue, job_id |-> job.job_id]

(* job_get *)
job_get(queue_list) ==
    IF queue_list = {}
    THEN /\ resp' = Response("job_get", queue_list, 400,
                             "No queue(s) specified in request")
         /\ UNCHANGED jobs
    ELSE IF get_job_candidates(queue_list) = {}
    THEN /\ resp' = Response("job_get", queue_list, 204, "")
         /\ UNCHANGED jobs
    ELSE \E i \in get_job_candidates(queue_list) :
            /\ jobs' = SetState(i, "running")
            /\ resp' = Response("job_get", queue_list, 200, Flatten(jobs[i]))

JobGet(queue_list) ==
    /\ job_get(queue_list)
    /\ UNCHANGED <<claimed, cancelled, callers, outVars, artVars>>

\* job_get with the history of the job_ids it has returned
JobGetLogged(queue_list) ==
    /\ job_get(queue_list)
    /\ claimed' = IF resp'.status = 200 THEN claimed \cup {resp'.body.job_id}
                  ELSE claimed
    /\ UNCHANGED <<cancelled, callers, outVars, artVars>>

(* Concurrent job_get requests.  A caller sends its queue list (JobGetCall,
   lines 116-118), the handler runs get_job in one store operation
   (JobGetStep, lines 119-122); got is the index of the document that
   find_one_and_update modified for this caller, 0 if none. *)
Idle == [pc |-> "idle", queue_list |-> {}, status |-> 0, got |-> 0]

JobGetCall(c, queue_list) ==
    /\ callers[c].pc = "idle"
    /\ callers' = [callers EXCEPT ![c] =
                     IF queue_list = {}
                     THEN [pc |-> "done", queue_list |-> {}, status |-> 400, got |-> 0]
                     ELSE [pc |-> "called", queue_list |-> queue_list,
                           status |-> 0, got |-> 0]]
    /\ UNCHANGED <<jobs, resp, claimed, cancelled, outVars, artVars>>

JobGetStep(c) ==
    /\ callers[c].pc = "called"
    /\ IF get_job_candidates(callers[c].queue_list) = {}
       THEN /\ callers' = [callers EXCEPT ![c].pc = "done", ![c].status = 204]
            /\ UNCHANGED jobs
       ELSE \E i \in get_job_candidates(callers[c].queue_list) :
               /\ jobs' = SetState(i, "running")
               /\ callers' = [callers EXCEPT ![c].pc = "done", ![c].status = 200,
                                             ![c].got = i]
    /\ UNCHANGED <<resp, claimed, cancelled, outVars, artVars>>

----------------------------------------------------------------------------
(* job_get_id: find_one by job_id, the job_data with the job_id added *)
find_one(job_id) == FirstIndex(jobs, LAMBDA job : job.job_id = job_id)

job_get_id(job_id) ==
    IF ~check_valid_uuid(job_id)
    THEN Response("job_get_id", job_id, 400, "Invalid job_id specified")
    ELSE IF find_one(job_id) = 0
    THEN Response("job_get_id", job_id, 204, "")
    ELSE Response("job_get_id", job_id, 200, Flatten(jobs[find_one(job_id)]))

JobGetId(job_id) ==
    /\ resp' = job_get_id(job_id)
    /\ UNCHANGED <<jobVars, callers, outVars, artVars>>

\* an update with upsert=True: a job_id without document gets one
ResultPost_Upsert(job_id, json_data) ==
    /\ IF ~check_valid_uuid(job_id)
       THEN /\ resp' = Response("result_post", <<job_id, json_data>>, 400,
                                "Invalid job_id specified")
            /\ UNCHANGED jobs
       ELSE /\ jobs' = IF find_one(job_id) = 0
                       THEN Append(jobs, [job_id |-> job_id,
                                          job_data |-> [job_queue |-> NoQueue],
                                          result_data |-> json_data])
                       ELSE [jobs EXCEPT ![find_one(job_id)].result_data =
                                            Merge(@, json_data)]
            /\ resp' = Response("result_post", <<job_id, json_data>>, 200, "OK")
    /\ UNCHANGED <<claimed, cancelled, callers, outVars, artVars>>

(* result_post: $set of result_data.<key> on the first document with job_id;
   the response records the job_id and the result posted *)
ResultPost(job_id, json_data) ==
    /\ IF ~check_valid_uuid(job_id)
       THEN /\ resp' = Response("result_post", <<job_id, json_data>>, 400,
                                "Invalid job_id specified")
            /\ UNCHANGED jobs
       ELSE /\ jobs' = IF find_one(job_id) = 0 THEN jobs
                       ELSE [jobs EXCEPT ![find_one(job_id)].result_data =
                                            Merge(@, json_data)]
            /\ resp' = Response("result_post", <<job_id, json_data>>, 200, "OK")
    /\ UNCHANGED <<claimed, cancelled, callers, outVars, artVars>>

(* result_get *)
result_get(job_id) ==
    IF ~check_valid_uuid(job_id)
    THEN Response("result_get", job_id, 400, "Invalid job_id specified")
    ELSE IF find_one(job_id) = 0
            \/ DOMAIN jobs[find_one(job_id)].result_data = {}
    THEN Response("result_get", job_id, 204, "")
    ELSE Response("result_get", job_id, 200, jobs[find_one(job_id)].result_data)

ResultGet(job_id) ==
    /\ resp' = result_get(job_id)
    /\ UNCHANGED <<jobVars, callers, outVars, artVars>>

----------------------------------------------------------------------------
(* cancel_job: update_one on the first document with job_id whose job_state
   is not in ["cancelled", "complete", "completed"] *)
Terminal == {"cancelled", "complete", "completed"}

cancel_match(job_id) ==
    FirstIndex(jobs, LAMBDA job : /\ job.job_id = job_id
                                  /\ job.result_data.job_state \notin Terminal)

cancel_job(job_id) ==
    IF cancel_match(job_id) = 0
    THEN /\ resp' = Response("action_post", job_id, 400,
                      "The job is already completed or cancelled")
         /\ UNCHANGED jobs
    ELSE /\ jobs' = SetState(cancel_match(job_id), "cancelled")
         /\ resp' = Response("action_post", job_id, 200, "OK")

(* action_post: the only supported action is cancel *)
action_post(job_id) ==
    IF ~check_valid_uuid(job_id)
    THEN /\ resp' = Response("action_post", job_id, 400, "Invalid job id\n")
         /\ UNCHANGED jobs
    ELSE cancel_job(job_id)

ActionPost(job_id) ==
    /\ action_post(job_id)
    /\ UNCHANGED <<claimed, cancelled, callers, outVars, artVars>>

\* action_post with the history of the job_ids it has cancelled
ActionPostLogged(job_id) ==
    /\ action_post(job_id)
    /\ cancelled' = IF resp'.status = 200 THEN cancelled \cup {job_id}
                    ELSE cancelled
    /\ UNCHANGED <<claimed, callers, outVars, artVars>>

----------------------------------------------------------------------------
(* str(): the decimal representation of a natural number *)
Digit(d) == CASE d = 0 -> "0" [] d = 1 -> "1" [] d = 2 -> "2" [] d = 3 -> "3"
              [] d = 4 -> "4" [] d = 5 -> "5" [] d = 6 -> "6" [] d = 7 -> "7"
              [] d = 8 -> "8" [] d = 9 -> "9"

RECURSIVE str(_)
str(n) == IF n < 10 THEN Digit(n) ELSE str(n \div 10) \o Digit(n % 10)

(* job_position_get: the jobs waiting on the queue of the first document with
   job_id, enumerated in scan order; a dict from job_id to position, in which
   a later document with the same job_id overwrites an earlier one *)
\* a query that forgets the job_state
waiting_on_AnyState(queue) ==
    SelectSeq(jobs, LAMBDA job : job.job_data.job_queue = queue)

waiting_on(queue) ==
    SelectSeq(jobs, LAMBDA job : /\ job.job_data.job_queue = queue
                                 /\ job.result_data.job_state = "waiting")

jobs_id_position(queue) ==
    LET w == waiting_on(queue)
        ids == {w[p].job_id : p \in 1..Len(w)}
    IN [id \in ids |->
          (CHOOSE p \in 1..Len(w) :
              /\ w[p].job_id = id
              /\ \A r \in (p+1)..Len(w) : w[r].job_id # id) - 1]

job_position_get(job_id) ==
    IF ~check_valid_uuid(job_id)
    THEN Response("job_position_get", job_id, 400, "Invalid job_id specified")
    ELSE IF find_one(job_id) = 0
    THEN Response("job_position_get", job_id, 410, "Job not found or already started\n")
    ELSE LET queue == jobs[find_one(job_id)].job_data.job_queue
             positions == jobs_id_position(queue)
         IN IF job_id \in DOMAIN positions
            THEN Response("job_position_get", job_id, 200, str(positions[job_id]))
            ELSE Response("job_position_get", job_id, 410,
                          "Job not found or already started\n")

JobPositionGet(job_id) ==
    /\ resp' = job_position_get(job_id)
    /\ UNCHANGED <<jobVars, callers, outVars, artVars>>

----------------------------------------------------------------------------
(* The output log.  output_post and output_get each make one store call,
   so concurrent requests interleave as whole steps. *)

\* "\n".join(output)
RECURSIVE Join(_)
Join(chunks) ==
    IF chunks = <<>> THEN ""
    ELSE IF Len(chunks) = 1 THEN chunks[1]
    ELSE chunks[1] \o "\n" \o Join(Tail(chunks))

\* the first document of mongo.db.output with job_id, 0 if none
output_find(job_id) == FirstIndex(output, LAMBDA doc : doc.job_id = job_id)

\* the collection without its document i
Remove(coll, i) == SubSeq(coll, 1, i - 1) \o SubSeq(coll, i + 1, Len(coll))

\* a push at the front of the array
output_push_Front(job_id, data) ==
    IF output_find(job_id) = 0
    THEN Append(output, [job_id |-> job_id, output |-> <<data>>])
    ELSE [output EXCEPT ![output_find(job_id)].output = <<data>> \o @]

\* update_one(..., {"$push": {"output": data}}, upsert=True)
output_push(job_id, data) ==
    IF output_find(job_id) = 0
    THEN Append(output, [job_id |-> job_id, output |-> <<data>>])
    ELSE [output EXCEPT ![output_find(job_id)].output = Append(@, data)]

(* output_post *)
OutputPost(job_id, data) ==
    /\ IF ~check_valid_uuid(job_id)
       THEN /\ resp' = Response("output_post", job_id, 400, "Invalid job_id specified")
            /\ UNCHANGED <<output, appended>>
       ELSE /\ TotalLen(appended, ValidUuids) < MaxChunks
            /\ output' = output_push(job_id, data)
            /\ appended' = [appended EXCEPT ![job_id] = Append(@, data)]
            /\ resp' = Response("output_post", job_id, 200, "OK")
    /\ UNCHANGED <<drained, jobVars, callers, artVars>>

\* find_one in place of find_one_and_delete: the document stays
output_delete_Keep(job_id) == output

\* find_one_and_delete: the collection after the call
output_delete(job_id) ==
    IF output_find(job_id) = 0 THEN output ELSE Remove(output, output_find(job_id))

\* the chunks of the document find_one_and_delete returns, <<>> if none
output_taken(job_id) ==
    IF output_find(job_id) = 0 THEN <<>> ELSE output[output_find(job_id)].output

(* output_get *)
OutputGet(job_id) ==
    /\ IF ~check_valid_uuid(job_id)
       THEN /\ resp' = Response("output_get", job_id, 400, "Invalid job id\n")
            /\ UNCHANGED <<output, drained>>
       ELSE /\ output' = output_delete(job_id)
            /\ drained' = [drained EXCEPT ![job_id] = @ \o output_taken(job_id)]
            /\ resp' = IF output_taken(job_id) # <<>>
                       THEN Response("output_get", job_id, 200,
                                     Join(output_taken(job_id)))
                       ELSE Response("output_get", job_id, 204, "")
    /\ UNCHANGED <<appended, jobVars, callers, artVars>>

----------------------------------------------------------------------------
(* The artifact store: GridFS keeps every uploaded version of a filename *)
artifact_filename(job_id) == job_id \o ".artifact"

\* the versions stored under a filename, oldest first
versions(filename) == SelectSeq(fs_files, LAMBDA f : f.filename = filename)

\* the oldest version in place of the latest
get_last_version_Oldest(filename) ==
    IF \A i \in 1..Len(fs_files) : fs_files[i].filename # filename THEN 0
    ELSE CHOOSE i \in 1..Len(fs_files) :
            /\ fs_files[i].filename = filename
            /\ \A j \in 1..Len(fs_files) :
                  fs_files[j].filename = filename
                     => fs_files[i].uploadDate <= fs_files[j].uploadDate

\* GridFS.get_last_version: the version with the latest uploadDate, 0 if none
get_last_version(filename) ==
    IF \A i \in 1..Len(fs_files) : fs_files[i].filename # filename THEN 0
    ELSE CHOOSE i \in 1..Len(fs_files) :
            /\ fs_files[i].filename = filename
            /\ \A j \in 1..Len(fs_files) :
                  fs_files[j].filename = filename
                     => fs_files[j].uploadDate <= fs_files[i].uploadDate

(* artifacts_post: storage.put adds a version and its chunks; the chunks are
   then stamped with the uploadDate of the version *)
ArtifactsPost(job_id, file) ==
    /\ IF ~check_valid_uuid(job_id)
       THEN /\ resp' = Response("artifacts_post", job_id, 400, "Invalid job id\n")
            /\ UNCHANGED <<fs_files, fs_chunks, now, puts>>
       ELSE /\ Len(fs_files) < MaxPuts
            /\ LET file_id == Len(fs_files) + 1
                   timestamp == now
               IN /\ fs_files' = Append(fs_files,
                                        [id |-> file_id,
                                         filename |-> artifact_filename(job_id),
                                         uploadDate |-> timestamp])
                  /\ fs_chunks' = Append(fs_chunks,
                                         [files_id |-> file_id, data |-> file,
                                          uploadDate |-> timestamp])
            /\ now' = now + 1
            /\ puts' = [puts EXCEPT ![job_id] = Append(@, file)]
            /\ resp' = Response("artifacts_post", job_id, 200, "OK")
    /\ UNCHANGED <<jobVars, callers, outVars>>

\* the bytes of version i: its chunks
file_data(i) ==
    LET c == CHOOSE k \in 1..Len(fs_chunks) : fs_chunks[k].files_id = fs_files[i].id
    IN fs_chunks[c].data

(* artifacts_get *)
artifacts_get(job_id) ==
    IF ~check_valid_uuid(job_id)
    THEN Response("artifacts_get", job_id, 400, "Invalid job id\n")
    ELSE IF get_last_version(artifact_filename(job_id)) = 0
    THEN Response("artifacts_get", job_id, 204, "")
    ELSE Response("artifacts_get", job_id, 200,
                  file_data(get_last_version(artifact_filename(job_id))))

ArtifactsGet(job_id) ==
    /\ resp' = artifacts_get(job_id)
    /\ UNCHANGED <<jobVars, callers, outVars, artVars>>

----------------------------------------------------------------------------
Init ==
    /\ jobs = <<>>
    /\ resp = Response("none", "", 0, "")
    /\ claimed = {}
    /\ cancelled = {}
    /\ callers = [c \in Callers |-> Idle]
    /\ output = <<>>
    /\ appended = [id \in ValidUuids |-> <<>>]
    /\ drained = [id \in ValidUuids |-> <<>>]
    /\ fs_files = <<>>
    /\ fs_chunks = <<>>
    /\ now = 1
    /\ puts = [id \in ValidUuids |-> <<>>]

Next ==
    \/ \E q \in Queues \cup {NoQueue}, id \in SuppliedInputs : JobPost(q, id)
    \/ \E ql \in SUBSET Queues : JobGet(ql)
    \/ \E id \in JobIdInputs : JobGetId(id)
    \/ \E id \in JobIdInputs, data \in ResultInputs : ResultPost(id, data)
    \/ \E id \in JobIdInputs : ResultGet(id)
    \/ \E id \in JobIdInputs : ActionPost(id)
    \/ \E id \in JobIdInputs : JobPositionGet(id)

Spec == Init /\ [][Next]_vars

(* The same handlers with the histories of claimed and cancelled job_ids *)
NextHistory ==
    \/ \E q \in Queues \cup {NoQueue}, id \in SuppliedInputs : JobPost(q, id)
    \/ \E ql \in SUBSET Queues : JobGetLogged(ql)
    \/ \E id \in JobIdInputs : JobGetId(id)
    \/ \E id \in JobIdInputs, data \in ResultInputs : ResultPost(id, data)
    \/ \E id \in JobIdInputs : ResultGet(id)
    \/ \E id \in JobIdInputs : ActionPostLogged(id)
    \/ \E id \in JobIdInputs : JobPositionGet(id)

SpecHistory == Init /\ [][NextHistory]_vars

----------------------------------------------------------------------------
(* The race for waiting jobs: any store that submissions, claims and
   cancellations produce, and the callers of job_get running concurrently. *)
RaceJobs ==
    {[job_id |-> id, job_data |-> [job_queue |-> q], result_data |-> [job_state |-> s]] :
        id \in ValidUuids, q \in Queues, s \in {"waiting", "running", "cancelled"}}

InitRace ==
    /\ jobs \in UNION {[1..n -> RaceJobs] : n \in 0..MaxJobs}
    /\ resp = Response("none", "", 0, "")
    /\ claimed = {}
    /\ cancelled = {}
    /\ callers = [c \in Callers |-> Idle]
    /\ output = <<>>
    /\ appended = [id \in ValidUuids |-> <<>>]
    /\ drained = [id \in ValidUuids |-> <<>>]
    /\ fs_files = <<>>
    /\ fs_chunks = <<>>
    /\ now = 1
    /\ puts = [id \in ValidUuids |-> <<>>]

NextRace ==
    \/ \E c \in Callers, ql \in SUBSET Queues : JobGetCall(c, ql)
    \/ \E c \in Callers : JobGetStep(c)

SpecRace == InitRace /\ [][NextRace]_vars

----------------------------------------------------------------------------
(* The output log under concurrent appends and drains *)
NextOutput ==
    \/ \E id \in JobIdInputs, data \in Chunks : OutputPost(id, data)
    \/ \E id \in JobIdInputs : OutputGet(id)

SpecOutput == Init /\ [][NextOutput]_vars

(* The artifact store *)
NextArtifact ==
    \/ \E id \in JobIdInputs, file \in Blobs : ArtifactsPost(id, file)
    \/ \E id \in JobIdInputs : ArtifactsGet(id)

SpecArtifact == Init /\ [][NextArtifact]_vars

----------------------------------------------------------------------------
(* The whole service: clients that submit new jobs to one queue, agents
   that claim them and report results, output and artifacts under the
   job_id they work on, and clients that cancel and poll. *)
NextSystem ==
    \/ \E q \in {"q1", NoQueue} : JobPost(q, NoJobId)
    \/ JobGet({"q1"})
    \/ \E id \in ValidUuids : JobGetId(id)
    \/ \E id \in ValidUuids, data \in ResultInputs : ResultPost(id, data)
    \/ \E id \in ValidUuids : ResultGet(id)
    \/ \E id \in ValidUuids : ActionPost(id)
    \/ OutputPost(UUID2, "a")
    \/ OutputGet(UUID2)
    \/ ArtifactsPost(UUID2, "tar1")
    \/ ArtifactsGet(UUID2)

SpecSystem == Init /\ [][NextSystem]_vars

----------------------------------------------------------------------------
(* Results: agents that post results of several fields for the jobs of one
   queue, new or resubmitted, next to the claims and cancellations that
   write job_state *)
NextResult ==
    \/ \E id \in {NoJobId, UUID1} : JobPost("q1", id)
    \/ JobGet({"q1"})
    \/ \E id \in ValidUuids : ActionPost(id)
    \/ \E id \in JobIdInputs, data \in ResultWrites : ResultPost(id, data)
    \/ \E id \in JobIdInputs : ResultGet(id)

SpecResult == Init /\ [][NextResult]_vars

----------------------------------------------------------------------------
(* Cancellations racing with claims.  job_get and action_post each make one
   store call, so concurrent requests interleave as whole steps; no result
   is posted. *)
NextCancel ==
    \/ \E q \in Queues \cup {NoQueue}, id \in SuppliedInputs : JobPost(q, id)
    \/ \E ql \in SUBSET Queues : JobGetLogged(ql)
    \/ \E id \in JobIdInputs : ActionPostLogged(id)

SpecCancel == Init /\ [][NextCancel]_vars

----------------------------------------------------------------------------
(* Agents that keep polling: the submissions are finitely many, results and
   cancellations come at any time, and for every queue an agent keeps
   calling job_get for that queue. *)
NextLive ==
    \/ \E q \in Queues \cup {NoQueue}, id \in SuppliedInputs : JobPost(q, id)
    \/ \E ql \in SUBSET Queues : JobGet(ql)
    \/ \E id \in JobIdInputs, data \in ResultInputs : ResultPost(id, data)
    \/ \E id \in JobIdInputs : ActionPost(id)

SpecLive ==
    /\ Init
    /\ [][NextLive]_vars
    /\ \A q \in Queues : WF_vars(JobGet({q}))

----------------------------------------------------------------------------
(* Properties *)

\* the job_state of document i of a store
StateAt(store, i) == store[i].result_data.job_state

\* the first document of a store with the given job_id, 0 if none
IndexOf(store, job_id) == FirstIndex(store, LAMBDA job : job.job_id = job_id)

\* the documents initially waiting in a race: still waiting, or handed out
InitiallyWaiting(i) ==
    StateAt(jobs, i) = "waiting" \/ \E c \in Callers : callers[c].got = i

\* the callers that asked for the queue of document i
Racing(i) ==
    {c \in Callers : /\ callers[c].pc # "idle"
                     /\ jobs[i].job_data.job_queue \in callers[c].queue_list}

(* C1: under concurrent job_get calls no document is handed to two callers,
   a document handed out was waiting on a queue the caller named and is now
   running, and when the callers that race for the queue of a document have
   all returned and that document was the only waiting one matching their
   queue lists, exactly one of them received it and all the others received
   "none available" (204). *)
C1_ExactlyOneClaim ==
    /\ \A c1, c2 \in Callers :
          (c1 # c2 /\ callers[c1].got # 0) => callers[c1].got # callers[c2].got
    /\ \A c \in Callers :
          callers[c].got # 0 =>
             /\ callers[c].status = 200
             /\ StateAt(jobs, callers[c].got) = "running"
             /\ jobs[callers[c].got].job_data.job_queue \in callers[c].queue_list
    /\ \A i \in 1..Len(jobs) :
          ( /\ InitiallyWaiting(i)
            /\ Racing(i) # {}
            /\ \A c \in Racing(i) : callers[c].pc = "done"
            /\ \A j \in 1..Len(jobs) : \A c \in Racing(i) :
                  (j # i /\ InitiallyWaiting(j))
                     => jobs[j].job_data.job_queue \notin callers[c].queue_list )
          => /\ Cardinality({c \in Racing(i) : callers[c].got = i}) = 1
             /\ \A c \in Racing(i) :
                   callers[c].got # i => (callers[c].got = 0 /\ callers[c].status = 204)

\* three callers raced for one waiting job: one holds it, two got 204
C1_Witness ==
    \E i \in 1..Len(jobs) :
        /\ Racing(i) = Callers
        /\ \A c \in Callers : callers[c].pc = "done"
        /\ Cardinality({c \in Callers : callers[c].got = i}) = 1
        /\ Cardinality({c \in Callers : callers[c].status = 204}) = 2

(* C2: a job returned by job_get is in state running right afterwards and its
   job_id has not been returned by any earlier job_get. *)
C2_ClaimedNeverReturnedAgain ==
    [][(resp'.op = "job_get" /\ resp'.status = 200) =>
          /\ resp'.body.job_id \notin claimed
          /\ StateAt(jobs', IndexOf(jobs', resp'.body.job_id)) = "running"]_vars

(* C3: a job whose job_state is completed or cancelled keeps that job_state
   in every later step. *)
C3_TerminalStatesFinal ==
    [][\A i \in 1..Len(jobs) :
          StateAt(jobs, i) \in {"completed", "cancelled"}
             => StateAt(jobs', i) = StateAt(jobs, i)]_vars

(* C4: cancelling a job that is waiting or running returns success and leaves
   it cancelled; cancelling a job that is cancelled or completed changes
   nothing and returns the conflict response; once a cancel of a job_id has
   succeeded every later cancel of that job_id returns the conflict response. *)
C4_CancelConditional ==
    [][(resp'.op = "action_post" /\ check_valid_uuid(resp'.arg)) =>
          LET job_id == resp'.arg
              i == IndexOf(jobs, job_id)
          IN /\ (i # 0 /\ StateAt(jobs, i) \in {"waiting", "running"}) =>
                   (resp'.status = 200 /\ StateAt(jobs', i) = "cancelled")
             /\ (i # 0 /\ StateAt(jobs, i) \in {"cancelled", "completed"}) =>
                   (resp'.status = 400 /\ jobs' = jobs)
             /\ job_id \in cancelled => resp'.status = 400]_vars

(* C5: for every job_id the chunks appended so far are, in order, the chunks
   the drains have handed out followed by the chunks still buffered: no chunk
   is handed out twice, none is lost, and the next drain returns every chunk
   not yet handed out. *)
Buffer(coll, job_id) ==
    LET i == FirstIndex(coll, LAMBDA doc : doc.job_id = job_id)
    IN IF i = 0 THEN <<>> ELSE coll[i].output

C5_NoChunkLostOrRepeated ==
    \A id \in ValidUuids :
        /\ appended[id] = drained[id] \o Buffer(output, id)
        /\ Cardinality({i \in 1..Len(output) : output[i].job_id = id}) <= 1

\* chunks were appended around a drain: one handed out, another buffered
C5_Witness ==
    \E id \in ValidUuids :
        /\ drained[id] # <<>>
        /\ Buffer(output, id) # <<>>
        /\ Len(appended[id]) = MaxChunks

(* C6: a drain returns the chunks appended to the job since the previous drain
   joined by newlines in append order and leaves the buffer empty; when no
   chunk was appended since the previous drain it returns 204. *)
C6_DrainReturnsPending ==
    [][(resp'.op = "output_get" /\ check_valid_uuid(resp'.arg)) =>
          LET id == resp'.arg
              pending == SubSeq(appended[id], Len(drained[id]) + 1, Len(appended[id]))
          IN /\ pending # <<>> => (resp'.status = 200 /\ resp'.body = Join(pending))
             /\ pending = <<>> => resp'.status = 204
             /\ Buffer(output', id) = <<>>
             /\ drained'[id] = appended[id]]_vars

\* a drain returned two chunks in append order
C6_Witness ==
    /\ resp.op = "output_get"
    /\ resp.status = 200
    /\ resp.body = "a\nb"
    /\ drained[resp.arg] = <<"a", "b">>

(* C7: no two documents of the job store have the same job_id. *)
C7_JobIdUnique ==
    \A i, j \in 1..Len(jobs) : i # j => jobs[i].job_id # jobs[j].job_id

(* C8: the position reported for a waiting job is the number of jobs waiting
   on the same queue that precede it in scan order. *)
C8_PositionCountsWaitingAhead ==
    \A i \in 1..Len(jobs) :
        StateAt(jobs, i) = "waiting" =>
           LET ahead == {j \in 1..(i-1) :
                           /\ StateAt(jobs, j) = "waiting"
                           /\ jobs[j].job_data.job_queue = jobs[i].job_data.job_queue}
               r == job_position_get(jobs[i].job_id)
           IN r.status = 200 /\ r.body = str(Cardinality(ahead))

(* C9: a position query for a well-formed job_id of which no document is
   waiting answers 410 "not found or already started"; a malformed job_id is
   answered 400 and a reported position 200; the query leaves the job store
   unchanged. *)
C9_PositionNotFound ==
    [][resp'.op = "job_position_get" =>
          LET job_id == resp'.arg
              waits == \E i \in 1..Len(jobs) :
                          jobs[i].job_id = job_id /\ StateAt(jobs, i) = "waiting"
          IN /\ jobs' = jobs
             /\ (check_valid_uuid(job_id) /\ ~waits) =>
                   (resp'.status = 410
                    /\ resp'.body = "Job not found or already started\n")
             /\ ~check_valid_uuid(job_id) => resp'.status = 400
             /\ resp'.status = 200 => (waits /\ resp'.body \in {str(n) : n \in 0..Len(jobs)})
             /\ resp'.status \in {200, 400, 410}]_vars

(* C10: for every job_id artifacts_get returns the bytes of the latest
   artifacts_post of that job_id, 204 when there was none; every version
   uploaded for the job_id is still stored, in upload order. *)
VersionData(f) ==
    LET c == CHOOSE k \in 1..Len(fs_chunks) : fs_chunks[k].files_id = f.id
    IN fs_chunks[c].data

C10_ArtifactLatestVersion ==
    \A id \in ValidUuids :
        LET v == versions(artifact_filename(id))
        IN /\ artifacts_get(id) =
                 IF puts[id] = <<>>
                 THEN Response("artifacts_get", id, 204, "")
                 ELSE Response("artifacts_get", id, 200, puts[id][Len(puts[id])])
           /\ Len(v) = Len(puts[id])
           /\ \A k \in 1..Len(v) : VersionData(v[k]) = puts[id][k]

\* two different uploads for one job_id, none for the other
C10_Witness ==
    /\ puts[UUID1] = <<"tar1", "tar2">>
    /\ puts[UUID2] = <<>>
    /\ artifacts_get(UUID1).body = "tar2"
    /\ artifacts_get(UUID2).status = 204

\* the position of a job that was claimed is asked for and not found
C9_Witness ==
    /\ resp.op = "job_position_get"
    /\ resp.status = 410
    /\ \E i \in 1..Len(jobs) : jobs[i].job_id = resp.arg /\ StateAt(jobs, i) = "running"
    /\ \A i \in 1..Len(jobs) : jobs[i].job_id = resp.arg => StateAt(jobs, i) # "waiting"

(* C11 as stated: a submission without job_queue, or with a supplied job_id
   string that is not a well-formed UUID, is answered with a validation error
   and stores nothing; a submission with a job_queue and a well-formed
   supplied job_id is accepted and stores and returns that job_id. *)
C11_SubmitValidation_Original ==
    [][resp'.op = "job_post" =>
          LET job_queue == resp'.arg[1]
              supplied == resp'.arg[2]
          IN /\ (job_queue = NoQueue
                 \/ (supplied # NoJobId /\ supplied \notin ValidUuids)) =>
                   (resp'.status \in {400, 422} /\ jobs' = jobs)
             /\ (job_queue # NoQueue /\ supplied \in ValidUuids) =>
                   /\ resp'.status = 200
                   /\ resp'.body = supplied
                   /\ jobs' = Append(jobs, jobs'[Len(jobs')])
                   /\ jobs'[Len(jobs')].job_id = supplied]_vars

(* C11 amended: the same for a supplied job_id that is a non-empty string; an
   empty job_id is taken as absent and the submission is accepted under a
   fresh job_id. *)
C11_SubmitValidation ==
    [][resp'.op = "job_post" =>
          LET job_queue == resp'.arg[1]
              supplied == resp'.arg[2]
          IN /\ (job_queue = NoQueue
                 \/ (supplied \notin {NoJobId, EmptyJobId}
                     /\ supplied \notin ValidUuids)) =>
                   (resp'.status \in {400, 422} /\ jobs' = jobs)
             /\ (job_queue # NoQueue /\ supplied \in ValidUuids) =>
                   /\ resp'.status = 200
                   /\ resp'.body = supplied
                   /\ jobs' = Append(jobs, jobs'[Len(jobs')])
                   /\ jobs'[Len(jobs')].job_id = supplied
             /\ (job_queue # NoQueue /\ supplied = EmptyJobId) =>
                   /\ resp'.status = 200
                   /\ resp'.body \in ValidUuids
                   /\ jobs' = Append(jobs, jobs'[Len(jobs')])
                   /\ jobs'[Len(jobs')].job_id = resp'.body]_vars

\* a malformed job_id was rejected while a job is stored
C11_Witness ==
    /\ resp.op = "job_post"
    /\ resp.status = 400
    /\ resp.arg = <<"q1", BadId>>
    /\ Len(jobs) = 1

(* C12: an accepted submission without a job_id returns an id that no stored
   job has, the new job is waiting and job_get_id of that id answers the
   submitted job_data plus the id; and no later step of any handler changes
   what job_get_id answers for a job_id it has found. *)
C12_NewJobPayloadKept ==
    [][/\ (resp'.op = "job_post" /\ resp'.status = 200) =>
             (~Provided(resp'.arg[2]) =>
                 /\ \A i \in 1..Len(jobs) : jobs[i].job_id # resp'.body
                 /\ resp'.body \in ValidUuids
                 /\ jobs' = Append(jobs, jobs'[Len(jobs')])
                 /\ StateAt(jobs', Len(jobs')) = "waiting"
                 /\ \A id \in ValidUuids :
                       id = resp'.body =>
                          job_get_id(id)' =
                             Response("job_get_id", id, 200,
                                      [job_queue |-> resp'.arg[1], job_id |-> id]))
       /\ \A id \in ValidUuids :
             job_get_id(id).status = 200 => job_get_id(id)' = job_get_id(id)]_vars

\* a job submitted without id was claimed, cancelled, given a result, output
\* and an artifact, and job_get_id has just returned it
C12_Witness ==
    /\ resp.op = "job_get_id"
    /\ resp.status = 200
    /\ resp.arg = UUID2
    /\ resp.body = [job_queue |-> "q1", job_id |-> UUID2]
    /\ StateAt(jobs, IndexOf(jobs, UUID2)) = "completed"
    /\ output_find(UUID2) # 0
    /\ get_last_version(artifact_filename(UUID2)) # 0

(* C13: the conflict answer of action_post, "already completed or
   cancelled", differs from every validation answer and from every
   no-content answer, and is given only when a document with the job_id
   exists in a terminal state. *)
C13_ConflictDistinct ==
    [][(/\ resp'.op = "action_post"
        /\ resp'.body = "The job is already completed or cancelled") =>
          /\ resp'.body \notin {"Invalid job id\n", "Invalid job_id specified",
                                "No queue(s) specified in request",
                                "Invalid data or no job_queue specified"}
          /\ resp'.status \notin {200, 204, 410}
          /\ \E i \in 1..Len(jobs) : /\ jobs[i].job_id = resp'.arg
                                      /\ StateAt(jobs, i) \in Terminal]_vars

(* C14: job_get with a non-empty queue list returns a job only if a document
   with that job_id was waiting on one of the listed queues, and sets that
   one document to running, changing nothing else; it answers 204 only if no
   document is waiting on a listed queue, and changes nothing; with an empty
   queue list it answers 400 and changes nothing. *)
C14_ClaimOnlyWaitingOnListedQueue ==
    [][resp'.op = "job_get" =>
          LET queue_list == resp'.arg
              eligible == {i \in 1..Len(jobs) :
                              /\ StateAt(jobs, i) = "waiting"
                              /\ jobs[i].job_data.job_queue \in queue_list}
          IN /\ queue_list = {} => (resp'.status = 400 /\ jobs' = jobs)
             /\ queue_list # {} => resp'.status \in {200, 204}
             /\ resp'.status = 200 =>
                   \E i \in eligible :
                      /\ resp'.body = [job_queue |-> jobs[i].job_data.job_queue,
                                       job_id |-> jobs[i].job_id]
                      /\ jobs' = [jobs EXCEPT ![i].result_data.job_state = "running"]
             /\ resp'.status = 204 => (eligible = {} /\ jobs' = jobs)]_vars

\* a job was claimed from q1 while the job submitted before it waits on q2
C14_Witness ==
    /\ resp.op = "job_get"
    /\ resp.status = 200
    /\ resp.arg = {"q1"}
    /\ Len(jobs) = 2
    /\ jobs[1].job_data.job_queue = "q2" /\ StateAt(jobs, 1) = "waiting"
    /\ jobs[2].job_data.job_queue = "q1" /\ StateAt(jobs, 2) = "running"
    /\ resp.body.job_id = jobs[2].job_id

(* C15: a result_post for a stored job_id merges the posted fields into the
   result_data of the first document with that job_id: result_get then
   returns the posted value for every posted field and the previous value
   for every other field, job_state included; the job_id and job_data of
   that document, every other document and the results of every other
   job_id stay as they were.  For a job_id with no document nothing is
   stored. *)
C15_ResultLastWriterWins ==
    [][(resp'.op = "result_post" /\ resp'.status = 200) =>
          LET job_id == resp'.arg[1]
              data == resp'.arg[2]
              i == IndexOf(jobs, job_id)
          IN IF i = 0 THEN jobs' = jobs
             ELSE /\ Len(jobs') = Len(jobs)
                  /\ \A j \in 1..Len(jobs) : j # i => jobs'[j] = jobs[j]
                  /\ jobs'[i].job_id = jobs[i].job_id
                  /\ jobs'[i].job_data = jobs[i].job_data
                  /\ \A id \in ValidUuids :
                        IF id = job_id
                        THEN LET old == jobs[i].result_data
                                 got == result_get(id)'
                             IN /\ got.status = 200
                                /\ DOMAIN got.body = DOMAIN old \cup DOMAIN data
                                /\ \A k \in DOMAIN data : got.body[k] = data[k]
                                /\ \A k \in DOMAIN old \ DOMAIN data :
                                      got.body[k] = old[k]
                        ELSE result_get(id)' = result_get(id)]_vars

\* a test_status was posted for a job whose job_state an earlier result had
\* set, while the other job has the result_data it was built with
C15_Witness ==
    /\ resp.op = "result_post"
    /\ resp.status = 200
    /\ Len(jobs) = 2
    /\ resp.arg = <<jobs[1].job_id, [k \in {"test_status"} |-> "1"]>>
    /\ jobs[1].result_data = [job_state |-> "completed", test_status |-> "1"]
    /\ jobs[2].result_data = [k \in {"job_state"} |-> "waiting"]

(* C16: with no result posted, a job whose cancel returned success is in
   state cancelled from then on; no job_get returns a job_id whose cancel
   has succeeded; and a cancel of a running job succeeds and leaves it
   cancelled. *)
C16_CancelClaimRace ==
    /\ [](\A id \in cancelled : StateAt(jobs, IndexOf(jobs, id)) = "cancelled")
    /\ [][/\ (resp'.op = "job_get" /\ resp'.status = 200) =>
                resp'.body.job_id \notin cancelled
          /\ (resp'.op = "action_post" /\ resp'.arg \in ValidUuids) =>
                LET i == IndexOf(jobs, resp'.arg)
                IN (i # 0 /\ StateAt(jobs, i) \in {"waiting", "running"}) =>
                      /\ resp'.status = 200
                      /\ StateAt(jobs', i) = "cancelled"]_vars

\* the queue job_position_get reads for a job_id, and the position it finds
QueueOf(job_id) == jobs[find_one(job_id)].job_data.job_queue
PositionOf(job_id) == jobs_id_position(QueueOf(job_id))[job_id]

(* C17: when job_get returns a job, job_position_get of its job_id answered
   "0" in the state before; the step lowers by one the position of every
   other job waiting on that queue and leaves the answers for the jobs of
   other queues as they were. *)
C17_ClaimTakesPositionZero ==
    [][(resp'.op = "job_get" /\ resp'.status = 200) =>
          LET claimed_id == resp'.body.job_id
              queue == resp'.body.job_queue
          IN /\ job_position_get(claimed_id) =
                   Response("job_position_get", claimed_id, 200, "0")
             /\ \A id \in ValidUuids \ {claimed_id} :
                   job_position_get(id).status = 200 =>
                      IF QueueOf(id) = queue
                      THEN /\ job_position_get(id)'.status = 200
                           /\ PositionOf(id)' = PositionOf(id) - 1
                           /\ job_position_get(id)'.body = str(PositionOf(id) - 1)
                      ELSE job_position_get(id)' = job_position_get(id)]_vars

\* the job_ids of the documents of a store, in order
JobIds(store) == [i \in 1..Len(store) |-> store[i].job_id]

(* C18: only an accepted job_post changes which job documents exist.  For a
   well-formed job_id without document, result_post answers OK and stores
   nothing, so that job_get_id and result_get still answer 204; action_post,
   job_get, output_get, output_post and the artifact handlers add no document
   either; and output_post leaves an output document for that job_id. *)
C18_RecordsOnlyBySubmit ==
    [][/\ JobIds(jobs') # JobIds(jobs) =>
             (resp'.op = "job_post" /\ resp'.status = 200)
       /\ resp'.op \in {"job_get", "action_post", "output_get", "output_post",
                         "artifacts_post", "artifacts_get"} =>
             JobIds(jobs') = JobIds(jobs)
       /\ resp'.op = "result_post" =>
             \A id \in ValidUuids :
                (id = resp'.arg[1] /\ IndexOf(jobs, id) = 0) =>
                   /\ resp'.status = 200
                   /\ resp'.body = "OK"
                   /\ jobs' = jobs
                   /\ job_get_id(id)'.status = 204
                   /\ result_get(id)'.status = 204
       /\ resp'.op = "output_post" =>
             \A id \in ValidUuids :
                (id = resp'.arg /\ IndexOf(jobs, id) = 0) =>
                   /\ resp'.status = 200
                   /\ jobs' = jobs
                   /\ output_find(id)' # 0
                   /\ IndexOf(jobs', id) = 0]_vars

\* output was appended for a job_id that no job has, while another job is
\* stored
C18_Witness ==
    /\ resp.op = "output_post"
    /\ resp.arg = UUID2
    /\ output_find(UUID2) # 0
    /\ IndexOf(jobs, UUID2) = 0
    /\ Len(jobs) = 1

(* C19: when agents keep calling job_get for every queue, every document
   that is waiting eventually is not waiting any more. *)
C19_WaitingJobsLeave ==
    \A i \in 1..MaxJobs :
       (Len(jobs) >= i /\ StateAt(jobs, i) = "waiting")
          ~> (Len(jobs) >= i /\ StateAt(jobs, i) # "waiting")

====
